---- MODULE Spec2Model ----
(***************************************************************************)
(* Model of questionary's completion engine:                               *)
(*   questionary/completer.py     PathCompleter, ExecutableCompleter,      *)
(*                                WordCompleter                            *)
(*   questionary/prompts/text.py  text()                                   *)
(*                                                                         *)
(* A Python str is a sequence of one-character strings.  The filesystem    *)
(* is a small tree below the process's working directory, which is the     *)
(* root directory: it holds the two directories p and q, and each of them  *)
(* may hold entries named "a" and "a-".                                    *)
(***************************************************************************)
EXTENDS Naturals, Integers, Sequences, FiniteSets, TLC

VARIABLES fs, pc, req, res

vars == <<fs, pc, req, res>>

(***************************************************************************)
(* Bounds                                                                  *)
(***************************************************************************)
\* Most entries the two search directories hold together.
MaxEntries == 3
\* Longest word list handed to a WordCompleter or to text().
MaxWords == 2

(***************************************************************************)
(* str                                                                     *)
(***************************************************************************)
\* Code point of a character (Python compares str code point by code point).
ord(c) ==
  CASE c = "\t" -> 9
    [] c = "\n" -> 10
    [] c = " " -> 32
    [] c = "," -> 44
    [] c = "-" -> 45
    [] c = "/" -> 47
    [] c = ":" -> 58
    [] c = ";" -> 59
    [] c = "A" -> 65
    [] c = "B" -> 66
    [] c = "a" -> 97
    [] c = "b" -> 98
    [] c = "p" -> 112
    [] c = "q" -> 113
    [] c = "|" -> 124
    [] c = "~" -> 126

isspace(c) == c \in {" ", "\t", "\n"}

\* str.lower on one character.
lowerChar(c) ==
  CASE c = "A" -> "a"
    [] c = "B" -> "b"
    [] OTHER -> c

\* str.lower
lower(s) == [i \in 1..Len(s) |-> lowerChar(s[i])]

\* s[n:] for 0 <= n
DropFirst(s, n) == SubSeq(s, n + 1, Len(s))

\* s[:n] for 0 <= n
TakeFirst(s, n) == SubSeq(s, 1, IF n < Len(s) THEN n ELSE Len(s))

Last(s) == s[Len(s)]

RECURSIVE lstrip(_)
lstrip(s) == IF s # <<>> /\ isspace(Head(s)) THEN lstrip(Tail(s)) ELSE s

RECURSIVE rstrip(_)
rstrip(s) ==
  IF s # <<>> /\ isspace(Last(s)) THEN rstrip(SubSeq(s, 1, Len(s) - 1)) ELSE s

\* str.strip()
strip(s) == rstrip(lstrip(s))

\* str.startswith
startswith(s, p) == Len(p) <= Len(s) /\ SubSeq(s, 1, Len(p)) = p

\* str.endswith
endswith(s, p) ==
  Len(p) <= Len(s) /\ SubSeq(s, Len(s) - Len(p) + 1, Len(s)) = p

\* p in s
contains(s, p) ==
  \E i \in 0..(Len(s) - Len(p)) : SubSeq(s, i + 1, i + Len(p)) = p

\* a < b on str
RECURSIVE StrLess(_, _)
StrLess(a, b) ==
  IF b = <<>> THEN FALSE
  ELSE IF a = <<>> THEN TRUE
  ELSE IF Head(a) = Head(b) THEN StrLess(Tail(a), Tail(b))
  ELSE ord(Head(a)) < ord(Head(b))

\* The pieces of s between the characters for which s[i] \in seps: what
\* re.split gives for a pattern matching exactly one character of seps.
RECURSIVE SplitOn(_, _, _)
SplitOn(s, seps, cur) ==
  IF s = <<>> THEN <<cur>>
  ELSE IF Head(s) \in seps THEN <<cur>> \o SplitOn(Tail(s), seps, <<>>)
  ELSE SplitOn(Tail(s), seps, Append(cur, Head(s)))

NonEmpty(segs) == SelectSeq(segs, LAMBDA x : x # <<>>)

\* str.split(): the runs of non-whitespace characters.
split(s) == NonEmpty(SplitOn(s, {" ", "\t", "\n"}, <<>>))

\* str.split(sep) for a one-character sep.
splitSep(s, sep) == SplitOn(s, {sep}, <<>>)

\* index (1-based) of the last c in s, 0 when there is none: s.rfind(c) + 1
rfind1(s, c) ==
  LET I == {i \in 1..Len(s) : s[i] = c} IN
  IF I = {} THEN 0 ELSE CHOOSE i \in I : \A j \in I : j <= i

\* index (1-based) of the first c in s, 0 when there is none
find1(s, c) ==
  LET I == {i \in 1..Len(s) : s[i] = c} IN
  IF I = {} THEN 0 ELSE CHOOSE i \in I : \A j \in I : i <= j

RECURSIVE rstripSlash(_)
rstripSlash(s) ==
  IF s # <<>> /\ Last(s) = "/" THEN rstripSlash(SubSeq(s, 1, Len(s) - 1))
  ELSE s

(***************************************************************************)
(* os.path (posixpath)                                                     *)
(***************************************************************************)
\* os.path.dirname
dirname(p) ==
  LET head == TakeFirst(p, rfind1(p, "/")) IN
  IF head # <<>> /\ rstripSlash(head) # <<>> THEN rstripSlash(head) ELSE head

\* os.path.basename
basename(p) == DropFirst(p, rfind1(p, "/"))

\* os.path.join(a, b)
join(a, b) ==
  IF startswith(b, <<"/">>) THEN b
  ELSE IF a = <<>> \/ endswith(a, <<"/">>) THEN a \o b
  ELSE a \o <<"/">> \o b

(***************************************************************************)
(* The filesystem and the process environment                              *)
(***************************************************************************)
\* The directories of the working directory, and the names an entry of one
\* of them may have.
TopDirs == {<<"p">>, <<"q">>}

EntryNames == {<<"a">>, <<"a", "-">>}

\* A node is the sequence of names leading to it from the root; a slot is a
\* node that may hold an entry of a search directory.
Slots == {<<d, n>> : d \in TopDirs, n \in EntryNames}

\* "xfile": a regular file the user may execute; "file": one the user may
\* not; "dir": a directory (searchable by the user).
Kinds == {"none", "file", "xfile", "dir"}

\* The home directory of the current user.
UserHome == <<"/", "p">>

\* The node a path names: its components, without the empty ones and ".".
Resolve(path) ==
  SelectSeq(SplitOn(path, {"/"}, <<>>), LAMBDA x : x # <<>> /\ x # <<".">>)

KindOf(tree, node) ==
  IF node = <<>> THEN "dir"
  ELSE IF Len(node) = 1 THEN (IF node[1] \in TopDirs THEN "dir" ELSE "none")
  ELSE IF node \in Slots THEN tree[node]
  ELSE "none"

\* An isdir that takes the empty path for the working directory.
isdir_of_cwd(tree, path) == KindOf(tree, Resolve(path)) = "dir"

\* os.path.isdir
isdir(tree, path) == path # <<>> /\ KindOf(tree, Resolve(path)) = "dir"

\* os.access(name, os.X_OK)
access(tree, name) ==
  name # <<>> /\ KindOf(tree, Resolve(name)) \in {"xfile", "dir"}

\* The names os.listdir(directory) returns, as a set.
Children(tree, directory) ==
  LET node == Resolve(directory) IN
  {n \in TopDirs \cup EntryNames : KindOf(tree, Append(node, n)) # "none"}

\* A set of str as a sequence, ascending ("asc") or descending.
RECURSIVE Ordered(_, _)
Ordered(S, order) ==
  IF S = {} THEN <<>>
  ELSE LET m == CHOOSE x \in S : \A y \in S \ {x} :
                  IF order = "asc" THEN StrLess(x, y) ELSE StrLess(y, x)
       IN <<m>> \o Ordered(S \ {m}, order)

\* os.listdir: the entries in the order the filesystem gives them, which is
\* any order; io.order is the one this request meets.
listdir(tree, io, directory) == Ordered(Children(tree, directory), io.order)

\* os.environ.get(key, default)
environ_get(environ, key, default) ==
  IF key \in DOMAIN environ THEN environ[key] ELSE default

\* os.path.expanduser: "~" and "~/..." name the user's home; "~name" names a
\* user the password database does not know, and is left as it is.
expanduser(path) ==
  IF ~startswith(path, <<"~">>) THEN path
  ELSE LET j == find1(Tail(path), "/")
           i == IF j = 0 THEN Len(path) ELSE j
           r == rstripSlash(UserHome) \o DropFirst(path, i)
       IN IF i # 1 THEN path
          ELSE IF r = <<>> THEN <<"/">> ELSE r

(***************************************************************************)
(* PathCompleter                                                           *)
(***************************************************************************)
\* None, or Some(x): a sequence of at most one element.
None == <<>>

Some(x) == <<x>>

\* Completion(text, start_position, display=display)
Completion(text, start_position, display) ==
  [text |-> text, start_position |-> start_position, display |-> display]

\* What a call (of a supplier, or of get_completions once its generator is
\* consumed) comes to: the value it returned and the exception it raised
\* ("" when it raised none).
Returned(v) == [value |-> v, raised |-> ""]

Raised(e) == [value |-> <<>>, raised |-> e]

\* '[' + '|'.join(map(re.escape, self.delimiters.split())) + ']': the set of
\* characters the pattern matches.  re.escape leaves every character itself
\* inside the brackets, and "|" between two tokens is one more character of
\* the set.
regexPattern(delimiters) ==
  LET tokens == split(delimiters) IN
  UNION {{tokens[i][j] : j \in 1..Len(tokens[i])} : i \in 1..Len(tokens)}
    \cup (IF Len(tokens) > 1 THEN {"|"} ELSE {})

\* re.compile fails on "[]": re.error, unterminated character set.
regexError(delimiters) == split(delimiters) = <<>>

\* re.split(regexPattern, text)
re_split(delimiters, text) == SplitOn(text, regexPattern(delimiters), <<>>)

\* completer.py 43-47: the text that is completed.
WorkingText(cfg, text_before_cursor) ==
  LET text == strip(text_before_cursor) IN
  IF cfg.delimiters = None THEN Returned(text)
  ELSE IF regexError(cfg.delimiters[1]) THEN Raised("re.error")
  ELSE Returned(strip(Last(re_split(cfg.delimiters[1], text))))

\* self.get_paths()
get_paths(cfg, environ) ==
  CASE cfg.get_paths.kind = "default" -> Returned(<<<<".">>>>)
    [] cfg.get_paths.kind = "returns" -> Returned(cfg.get_paths.value)
    [] cfg.get_paths.kind = "raises" -> Raised(cfg.get_paths.exc)
    [] cfg.get_paths.kind = "environ" ->
         Returned(splitSep(environ_get(environ, "PATH", <<>>), ":"))

\* self.file_filter(full_name)
file_filter(cfg, tree, full_name) ==
  CASE cfg.file_filter.kind = "default" -> Returned(TRUE)
    [] cfg.file_filter.kind = "access" -> Returned(access(tree, full_name))
    [] cfg.file_filter.kind = "raises" -> Raised(cfg.file_filter.exc)

\* completer.py 61-66: the directories where to look.
Directories(text, paths) ==
  IF dirname(text) # <<>>
  THEN [i \in 1..Len(paths) |-> dirname(join(paths[i], text))]
  ELSE paths

\* completer.py 76-78: the entries of one directory that start with prefix.
Matching(tree, io, directory, prefix) ==
  LET names == listdir(tree, io, directory)
      hits == SelectSeq(names, LAMBDA n : startswith(n, prefix))
  IN [i \in 1..Len(hits) |-> <<directory, hits[i]>>]

\* completer.py 72-78: all filenames; os.listdir raises OSError for a
\* directory of io.fail.
RECURSIVE Filenames(_, _, _, _)
Filenames(tree, io, directories, prefix) ==
  IF directories = <<>> THEN Returned(<<>>)
  ELSE LET directory == Head(directories)
           rest == Filenames(tree, io, Tail(directories), prefix)
       IN IF ~isdir(tree, directory) THEN rest
          ELSE IF Resolve(directory) \in io.fail THEN Raised("OSError")
          ELSE IF rest.raised # "" THEN rest
          ELSE Returned(Matching(tree, io, directory, prefix) \o rest.value)

\* Where x goes in a list sorted by k[1]: behind every element that is not
\* greater (sorted is stable).
RECURSIVE Insert(_, _)
Insert(x, l) ==
  IF l = <<>> THEN <<x>>
  ELSE IF StrLess(x[2], Head(l)[2]) THEN <<x>> \o l
  ELSE <<Head(l)>> \o Insert(x, Tail(l))

RECURSIVE SortedFrom(_, _)
SortedFrom(l, acc) ==
  IF l = <<>> THEN acc ELSE SortedFrom(Tail(l), Insert(Head(l), acc))

\* The filenames left in the order of the listings.
unsorted(filenames) == filenames

\* sorted(filenames, key=lambda k: k[1])
sorted(filenames) == SortedFrom(filenames, <<>>)

\* The whole filename, the typed prefix not taken off.
WholeFilename(filename, prefix) == filename

\* completer.py 85: filename[len(prefix):]
CompletionText(filename, prefix) == DropFirst(filename, Len(prefix))

\* completer.py 88-92: the displayed name.
Display(tree, full_name, filename) ==
  IF isdir(tree, full_name) THEN filename \o <<"/">> ELSE filename

\* No entry is skipped for being no directory.
SkipNothing(cfg, tree, full_name) == FALSE

\* completer.py 93-94: the entry is skipped because it is no directory.
SkipNonDirectory(cfg, tree, full_name) ==
  ~isdir(tree, full_name) /\ cfg.only_directories

\* completer.py 99
Yielded(tree, full_name, filename, prefix) ==
  Completion(CompletionText(filename, prefix), 0,
             Display(tree, full_name, filename))

\* completer.py 84-99: the generator's loop over the sorted filenames.  The
\* value is what it yielded, each Completion beside the (directory,
\* filename) it was made from, up to the end or to the exception.
RECURSIVE YieldLoop(_, _, _, _, _)
YieldLoop(cfg, tree, filenames, prefix, acc) ==
  IF filenames = <<>> THEN Returned(acc)
  ELSE LET directory == Head(filenames)[1]
           filename == Head(filenames)[2]
           full_name == join(directory, filename)
           keep == file_filter(cfg, tree, full_name)
           item == [completion |-> Yielded(tree, full_name, filename, prefix),
                    directory |-> directory, filename |-> filename]
       IN IF SkipNonDirectory(cfg, tree, full_name)
          THEN YieldLoop(cfg, tree, Tail(filenames), prefix, acc)
          ELSE IF keep.raised # "" THEN [value |-> acc, raised |-> keep.raised]
          ELSE IF ~keep.value
          THEN YieldLoop(cfg, tree, Tail(filenames), prefix, acc)
          ELSE YieldLoop(cfg, tree, Tail(filenames), prefix, Append(acc, item))

\* completer.py 100-101: except OSError: pass
ExceptOSError(r) == IF r.raised = "OSError" THEN [r EXCEPT !.raised = ""] ELSE r

\* completer.py 55-99: the body of the try statement.
TryBody(cfg, tree, io, environ, text0) ==
  LET text == IF cfg.expanduser THEN expanduser(text0) ELSE text0
      paths == get_paths(cfg, environ)
      prefix == basename(text)
      found == Filenames(tree, io, Directories(text, paths.value), prefix)
  IN IF paths.raised # "" THEN Raised(paths.raised)
     ELSE IF found.raised # "" THEN Raised(found.raised)
     ELSE YieldLoop(cfg, tree, sorted(found.value), prefix, <<>>)

\* PathCompleter.get_completions, its generator consumed to the end.
get_completions(cfg, tree, io, environ, text_before_cursor) ==
  LET w == WorkingText(cfg, text_before_cursor) IN
  IF w.raised # "" THEN [value |-> <<>>, raised |-> w.raised, text |-> <<>>]
  ELSE IF Len(w.value) < cfg.min_input_len
  THEN [value |-> <<>>, raised |-> "", text |-> w.value]
  ELSE LET r == ExceptOSError(TryBody(cfg, tree, io, environ, w.value)) IN
       [value |-> r.value, raised |-> r.raised, text |-> w.value]

(***************************************************************************)
(* ExecutableCompleter                                                     *)
(***************************************************************************)
\* PathCompleter.__init__'s defaults.
PathCompleterDefaults ==
  [only_directories |-> FALSE,
   get_paths |-> [kind |-> "default"],
   file_filter |-> [kind |-> "default"],
   min_input_len |-> 0,
   expanduser |-> FALSE,
   delimiters |-> None]

\* ExecutableCompleter.__init__
ExecutableCompleter ==
  [only_directories |-> FALSE,
   min_input_len |-> 1,
   get_paths |-> [kind |-> "environ"],
   file_filter |-> [kind |-> "access"],
   expanduser |-> TRUE,
   delimiters |-> None]

(***************************************************************************)
(* The requests a session makes                                            *)
(***************************************************************************)
P == <<"p">>

Q == <<"q">>

\* Texts before the cursor.
Texts ==
  {<<>>, <<"a">>, <<"a", "-">>, <<"p">>, <<" ", "a">>, <<"a", " ">>,
   <<"p", "/">>, <<"p", "/", "a">>, <<"/", "q", "/", "a">>,
   <<"~", "/", "a">>}

\* What get_paths and file_filter functions a caller supplies do.
SearchPaths == {[kind |-> "default"],
                [kind |-> "returns", value |-> <<P, Q>>],
                [kind |-> "returns", value |-> <<Q, P>>]}

Filters == {[kind |-> "default"], [kind |-> "access"]}

Exceptions == {"OSError", "ValueError"}

Orders == {[order |-> o, fail |-> {}] : o \in {"asc", "desc"}}

ListingFailures == {[order |-> "asc", fail |-> {<<d>>}] : d \in TopDirs}

\* Delimiter strings: the one text() passes, and others.
TextDelimiters == <<" ", "\t", "\n", ";", ",">>

Delimiters ==
  {TextDelimiters, <<";", ",">>, <<";", " ", ",">>, <<" ">>, <<>>}

DelimitedTexts ==
  {<<"a">>, <<"p", " ", "a">>, <<"p", ";", "a">>, <<"p", "|", "a">>,
   <<"a", ";">>, <<"q", ",", " ", "a">>, <<"p", "\t", "a">>}

PathRequest(cfg, text, io) ==
  [completer |-> "PathCompleter", cfg |-> cfg, text_before_cursor |-> text,
   io |-> io, environ |-> [k \in {} |-> <<>>]]

\* Well-behaved suppliers and listings.
PlainRequests ==
  {PathRequest([PathCompleterDefaults EXCEPT !.only_directories = od,
                                             !.get_paths = gp,
                                             !.file_filter = ff], t, io) :
     od \in BOOLEAN, gp \in SearchPaths, ff \in Filters, t \in Texts,
     io \in Orders}

\* os.listdir fails for one of the directories.
FailedListingRequests ==
  {PathRequest([PathCompleterDefaults EXCEPT !.get_paths = gp], t, io) :
     gp \in SearchPaths, t \in {<<>>, <<"a">>}, io \in ListingFailures}

\* A supplier raises.
FailedSupplierRequests ==
  {PathRequest([PathCompleterDefaults EXCEPT
                  !.get_paths = [kind |-> "raises", exc |-> e]],
               <<"a">>, io) : e \in Exceptions, io \in Orders}
  \cup
  {PathRequest([PathCompleterDefaults EXCEPT
                  !.get_paths = [kind |-> "returns", value |-> <<P, Q>>],
                  !.file_filter = [kind |-> "raises", exc |-> e]],
               <<"a">>, io) : e \in Exceptions, io \in Orders}

\* delimiters, min_input_len and expanduser configured.
DelimitedRequests ==
  {PathRequest([PathCompleterDefaults EXCEPT
                  !.get_paths = [kind |-> "returns", value |-> <<P, Q>>],
                  !.delimiters = Some(d),
                  !.min_input_len = n,
                  !.expanduser = (n = 1)], t, io) :
     d \in Delimiters, n \in {0, 1}, t \in DelimitedTexts,
     io \in {[order |-> "desc", fail |-> {}]}}

PathRequests ==
  PlainRequests \cup FailedListingRequests \cup FailedSupplierRequests
    \cup DelimitedRequests

\* What the environment may hold when an ExecutableCompleter is asked.
Environs ==
  {[k \in {} |-> <<>>], [PATH |-> <<>>], [PATH |-> <<"p", ":", "q">>]}

ExecRequests ==
  {[completer |-> "ExecutableCompleter", cfg |-> ExecutableCompleter,
    text_before_cursor |-> t, io |-> io, environ |-> env] :
     t \in Texts, io \in Orders, env \in Environs}

NoRequest == [completer |-> "none"]

NoResult == [value |-> <<>>, raised |-> "", text |-> <<>>]

(***************************************************************************)
(* The session: the filesystem changes between requests; each request      *)
(* consumes the generator get_completions returns.                         *)
(***************************************************************************)
EmptyTree == [s \in Slots |-> "none"]

Entries(tree) == {s \in Slots : tree[s] # "none"}

Init ==
  /\ fs = EmptyTree
  /\ pc = "idle"
  /\ req = NoRequest
  /\ res = NoResult

\* Another process creates a file or a directory.
Create ==
  /\ pc = "idle"
  /\ Cardinality(Entries(fs)) < MaxEntries
  /\ \E s \in Slots, k \in Kinds \ {"none"} :
       /\ fs[s] = "none"
       /\ fs' = [fs EXCEPT ![s] = k]
  /\ UNCHANGED <<pc, req, res>>

\* Another process removes an entry.
Remove ==
  /\ pc = "idle"
  /\ \E s \in Entries(fs) : fs' = [fs EXCEPT ![s] = "none"]
  /\ UNCHANGED <<pc, req, res>>

\* PathCompleter.get_completions(document, complete_event)
PathGetCompletions ==
  /\ pc = "idle"
  /\ \E r \in PathRequests :
       /\ req' = r
       /\ res' = get_completions(r.cfg, fs, r.io, r.environ,
                                 r.text_before_cursor)
  /\ pc' = "done"
  /\ UNCHANGED fs

\* ExecutableCompleter.get_completions(document, complete_event)
ExecGetCompletions ==
  /\ pc = "idle"
  /\ \E r \in ExecRequests :
       /\ req' = r
       /\ res' = get_completions(r.cfg, fs, r.io, r.environ,
                                 r.text_before_cursor)
  /\ pc' = "done"
  /\ UNCHANGED fs

\* The session is done with the completions, and waits for the next key.
Return ==
  /\ pc = "done"
  /\ pc' = "idle"
  /\ req' = NoRequest
  /\ res' = NoResult
  /\ UNCHANGED fs

Next == Create \/ Remove \/ PathGetCompletions \/ ExecGetCompletions \/ Return

Spec == Init /\ [][Next]_vars

(***************************************************************************)
(* Properties of PathCompleter and ExecutableCompleter                     *)
(***************************************************************************)
Done == pc = "done"

Candidates == 1..Len(res.value)

\* The text completer.py 59-69 works on, and its prefix.
ExpandedText ==
  IF req.cfg.expanduser THEN expanduser(res.text) ELSE res.text

Prefix == basename(ExpandedText)

FullName(i) == join(res.value[i].directory, res.value[i].filename)

\* The request got as far as the try statement.
Tried == Done /\ res.raised # "re.error"
           /\ Len(res.text) >= req.cfg.min_input_len

\* The search directories of the request, when get_paths returns.
SearchedDirectories ==
  Directories(ExpandedText, get_paths(req.cfg, req.environ).value)

\* C1: an OSError raised while one candidate directory is listed removes
\* only that directory's contribution: every matching entry of a search
\* directory that lists successfully is still yielded.
C1_ListingErrorKeepsOtherDirectories ==
  (Tried /\ req.io.fail # {} /\ req.cfg.get_paths.kind # "raises"
     /\ req.cfg.file_filter.kind = "default" /\ ~req.cfg.only_directories)
  => \A k \in 1..Len(SearchedDirectories) :
       LET directory == SearchedDirectories[k] IN
       (isdir(fs, directory) /\ Resolve(directory) \notin req.io.fail)
       => \A n \in Children(fs, directory) :
            startswith(n, Prefix)
            => \E i \in Candidates :
                 /\ res.value[i].directory = directory
                 /\ res.value[i].filename = n

\* The request with the suppliers' failures taken away yields something:
\* so file_filter was called.
FilterCalled ==
  get_completions([req.cfg EXCEPT !.file_filter = [kind |-> "default"]],
                  fs, req.io, req.environ, req.text_before_cursor).value
    # <<>>

\* C2: an exception a caller-supplied get_paths or file_filter raises during
\* a request reaches the caller of get_completions, whatever its kind.
C2_SupplierFailurePropagates ==
  /\ (Tried /\ req.cfg.get_paths.kind = "raises")
     => res.raised = req.cfg.get_paths.exc
  /\ (Tried /\ req.cfg.file_filter.kind = "raises" /\ FilterCalled)
     => res.raised = req.cfg.file_filter.exc

\* C3 as stated: the candidates are in ascending order of display.
C3_SortedByDisplay ==
  Done => \A i, j \in Candidates :
            i < j => ~StrLess(res.value[j].completion.display,
                              res.value[i].completion.display)

\* C3, amended: the candidates are in ascending order of filename, the
\* entry's name before "/" is appended to a directory's.
C3_SortedByFilename ==
  Done => \A i, j \in Candidates :
            i < j => ~StrLess(res.value[j].filename, res.value[i].filename)

\* Candidates of two directories, listed out of order, whose displayed names
\* are not ascending.
C3_Witness ==
  /\ Done
  /\ Len(res.value) >= 2
  /\ req.io.order = "desc"
  /\ res.value[1].directory # res.value[2].directory
  /\ StrLess(res.value[1].filename, res.value[2].filename)
  /\ StrLess(res.value[2].completion.display,
             res.value[1].completion.display)

\* C4 as stated: the text of a candidate is its filename without its first
\* len(prefix) characters, and its start_position is -len(prefix).
C4_TextAndNegativeOffset ==
  Done => \A i \in Candidates :
            /\ res.value[i].completion.text
                 = DropFirst(res.value[i].filename, Len(Prefix))
            /\ res.value[i].completion.start_position = 0 - Len(Prefix)

\* C4, amended: the text of a candidate is its filename without its first
\* len(prefix) characters, and its start_position is 0.
C4_TextAndZeroOffset ==
  Done => \A i \in Candidates :
            /\ res.value[i].completion.text
                 = DropFirst(res.value[i].filename, Len(Prefix))
            /\ res.value[i].completion.start_position = 0

\* A candidate that completes a typed prefix with more characters.
C4_Witness ==
  /\ Done
  /\ Prefix # <<>>
  /\ \E i \in Candidates :
       /\ res.value[i].completion.text # <<>>
       /\ res.value[i].filename = Prefix \o res.value[i].completion.text

\* The characters of a delimiter string.
DelimiterSet(d) == {d[i] : i \in 1..Len(d)}

\* The last non-empty segment of the trimmed text, split on any character
\* of the delimiter string.
LastSegment(d, text) ==
  LET segs == NonEmpty(SplitOn(strip(text), DelimiterSet(d), <<>>)) IN
  IF segs = <<>> THEN <<>> ELSE strip(Last(segs))

\* C5: with delimiters configured, the working text is the last non-empty
\* segment of the trimmed text before the cursor, split on any character of
\* the delimiter string, and computing it never raises.
C5_LastSegmentOnAnyDelimiter ==
  (Done /\ req.cfg.delimiters # None)
  => /\ res.raised = ""
     /\ res.text = LastSegment(req.cfg.delimiters[1], req.text_before_cursor)

NoSearchPath == environ_get(req.environ, "PATH", <<>>) = <<>>

\* C6 as stated: with PATH unset or empty an ExecutableCompleter yields
\* nothing and raises nothing, whatever the text.
C6_NoSearchPathNoCandidates ==
  (Done /\ req.completer = "ExecutableCompleter" /\ NoSearchPath)
  => res.value = <<>> /\ res.raised = ""

\* C6, amended: with PATH unset or empty an ExecutableCompleter yields
\* nothing and raises nothing for a text that, after tilde expansion, has
\* no directory part.
C6_NoSearchPathNoDirectoryPart ==
  (Done /\ req.completer = "ExecutableCompleter" /\ NoSearchPath
     /\ dirname(ExpandedText) = <<>>)
  => res.value = <<>> /\ res.raised = ""

\* PATH is unset, the text names executables of p and q, and the request
\* got to the search.
C6_Witness ==
  /\ Done
  /\ req.completer = "ExecutableCompleter"
  /\ "PATH" \notin DOMAIN req.environ
  /\ req.text_before_cursor = <<"a">>
  /\ fs[<<P, <<"a">>>>] = "xfile"
  /\ res.value = <<>>

\* C7: every candidate passed the configured filters: file_filter held of
\* its full path, and it is a directory when only_directories is set; an
\* ExecutableCompleter's candidates are executable by the user.
C7_FiltersRespected ==
  Done => \A i \in Candidates :
            /\ req.cfg.file_filter.kind = "access" => access(fs, FullName(i))
            /\ req.cfg.file_filter.kind # "raises"
            /\ req.cfg.only_directories => isdir(fs, FullName(i))
            /\ req.completer = "ExecutableCompleter"
                 => access(fs, FullName(i))

\* A request with both filters set that yields an entry of a directory
\* which also holds a matching file that is not executable.
C7_Witness ==
  /\ Done
  /\ req.cfg.only_directories
  /\ req.cfg.file_filter.kind = "access"
  /\ \E i \in Candidates, s \in Slots :
       /\ Resolve(res.value[i].directory) = <<s[1]>>
       /\ fs[s] = "file"
       /\ startswith(s[2], Prefix)

\* The text before the cursor once a candidate is applied: -start_position
\* characters deleted, the candidate's text inserted.
Applied(c) ==
  TakeFirst(req.text_before_cursor,
            Len(req.text_before_cursor) + c.start_position) \o c.text

\* C9: without delimiters and tilde expansion, applying a candidate leaves a
\* text before the cursor that ends with the candidate's filename, also
\* when the text had leading or trailing whitespace.
C9_AppliedEndsWithFilename ==
  (Done /\ req.cfg.delimiters = None /\ ~req.cfg.expanduser)
  => \A i \in Candidates :
       endswith(Applied(res.value[i].completion), res.value[i].filename)

(***************************************************************************)
(* WordCompleter                                                           *)
(***************************************************************************)
\* Completion(text, start_position, display_meta=display_meta)
WordCompletion(text, start_position, display_meta) ==
  [text |-> text, start_position |-> start_position,
   display_meta |-> display_meta]

\* The characters of a word, and those that are no whitespace.
WordCharacters == {"a", "b", "A", "B", "p", "q"}

NonSpaceCharacters ==
  WordCharacters \cup {",", "-", "/", ":", ";", "|", "~"}

\* The longest suffix of s whose characters are all in keep.
TrailingRun(s, keep) ==
  LET N == {n \in 0..Len(s) : \A i \in (Len(s) - n + 1)..Len(s) : s[i] \in keep}
  IN DropFirst(s, Len(s) - (CHOOSE n \in N : \A m \in N : m <= n))

\* document.get_word_before_cursor(WORD=WORD): the trailing run of
\* non-whitespace characters (WORD) or of word characters.
get_word_before_cursor(text_before_cursor, WORD) ==
  TrailingRun(text_before_cursor,
              IF WORD THEN NonSpaceCharacters ELSE WordCharacters)

\* completer.py 139-141: the assertions of WordCompleter.__init__.
WordCompleterInit(cfg) ==
  IF cfg.WORD /\ cfg.sentence THEN Raised("AssertionError") ELSE Returned(cfg)

\* completer.py 153-155: the words, a list or what a callable returns.
Words(cfg) ==
  CASE cfg.words.kind = "list" -> Returned(cfg.words.value)
    [] cfg.words.kind = "callable" -> Returned(cfg.words.value)
    [] cfg.words.kind = "raises" -> Raised(cfg.words.exc)

\* completer.py 157-165: the word (or the text) before the cursor.
word_before_cursor(cfg, text_before_cursor) ==
  LET w == IF cfg.sentence THEN text_before_cursor
           ELSE get_word_before_cursor(text_before_cursor, cfg.WORD)
  IN IF cfg.ignore_case THEN lower(w) ELSE w

\* A matcher that lower-cases the text before the cursor only.
word_matches_unfolded(cfg, before, word) ==
  IF cfg.match_middle THEN contains(word, before)
  ELSE startswith(word, before)

\* completer.py 167-175
word_matches(cfg, before, word) ==
  LET w == IF cfg.ignore_case THEN lower(word) ELSE word IN
  IF cfg.match_middle THEN contains(w, before) ELSE startswith(w, before)

\* self.meta_dict.get(a, '')
meta_dict_get(cfg, a) ==
  IF a \in DOMAIN cfg.meta_dict THEN cfg.meta_dict[a] ELSE <<>>

\* completer.py 177-180
WordYield(cfg, before, words) ==
  LET hits == SelectSeq(words, LAMBDA a : word_matches(cfg, before, a)) IN
  [i \in 1..Len(hits) |->
     WordCompletion(hits[i], 0 - Len(before), meta_dict_get(cfg, hits[i]))]

\* WordCompleter(...).get_completions(document, complete_event), its
\* generator consumed to the end; text is the word before the cursor.
word_get_completions(cfg, text_before_cursor) ==
  LET made == WordCompleterInit(cfg)
      words == Words(cfg)
      before == word_before_cursor(cfg, text_before_cursor)
  IN IF made.raised # ""
     THEN [value |-> <<>>, raised |-> made.raised, text |-> <<>>]
     ELSE IF words.raised # ""
     THEN [value |-> <<>>, raised |-> words.raised, text |-> <<>>]
     ELSE [value |-> WordYield(cfg, before, words.value), raised |-> "",
           text |-> before]

\* The words a list is made of, and the lists.
WordSet == {<<"a", "b">>, <<"A", "b">>, <<"b", "a">>, <<"b">>}

WordLists == UNION {[1..n -> WordSet] : n \in 0..MaxWords}

WordTexts ==
  {<<>>, <<"a">>, <<"A">>, <<"b">>, <<"a", "b">>, <<"a", " ">>,
   <<"b", " ", "a">>, <<"-", "a">>}

MetaDicts == {[w \in {} |-> <<>>], [w \in {<<"a", "b">>} |-> <<"p">>]}

WordRequests ==
  {[completer |-> "WordCompleter",
    cfg |-> [words |-> [kind |-> k, value |-> l], ignore_case |-> ic,
             meta_dict |-> md, WORD |-> m[1], sentence |-> m[2],
             match_middle |-> mm],
    text_before_cursor |-> t] :
     k \in {"list", "callable"}, l \in WordLists, ic \in BOOLEAN,
     md \in MetaDicts, m \in BOOLEAN \X BOOLEAN, mm \in BOOLEAN,
     t \in WordTexts}
  \cup
  {[completer |-> "WordCompleter",
    cfg |-> [words |-> [kind |-> "raises", exc |-> e], ignore_case |-> ic,
             meta_dict |-> [w \in {} |-> <<>>], WORD |-> FALSE,
             sentence |-> FALSE, match_middle |-> FALSE],
    text_before_cursor |-> <<"a">>] : e \in Exceptions, ic \in BOOLEAN}

\* WordCompleter(...).get_completions(document, complete_event)
WordGetCompletions ==
  /\ pc = "idle"
  /\ \E r \in WordRequests :
       /\ req' = r
       /\ res' = word_get_completions(r.cfg, r.text_before_cursor)
  /\ pc' = "done"
  /\ UNCHANGED fs

NextWord == WordGetCompletions \/ Return

SpecWord == Init /\ [][NextWord]_vars

(***************************************************************************)
(* Properties of WordCompleter                                             *)
(***************************************************************************)
\* The anchor: the text, or the word, before the cursor.
Anchor ==
  IF req.cfg.sentence THEN req.text_before_cursor
  ELSE get_word_before_cursor(req.text_before_cursor, req.cfg.WORD)

Fold(x) == IF req.cfg.ignore_case THEN lower(x) ELSE x

AnchorMatches(w) ==
  IF req.cfg.match_middle THEN contains(Fold(w), Fold(Anchor))
  ELSE startswith(Fold(w), Fold(Anchor))

\* C8: the completions are, in the order of words, exactly the words the
\* anchor is a substring of (match_middle) or a prefix of (otherwise),
\* compared in lower case when ignore_case is set; each carries the word as
\* it was given and start_position = -len(anchor).
C8_WordsMatchedInOrder ==
  (Done /\ req.completer = "WordCompleter" /\ res.raised = "")
  => LET expected == SelectSeq(req.cfg.words.value, AnchorMatches) IN
     /\ Len(res.value) = Len(expected)
     /\ \A i \in 1..Len(expected) :
          /\ res.value[i].text = expected[i]
          /\ res.value[i].start_position = 0 - Len(Anchor)

\* A case-insensitive request whose anchor matches a word only in lower
\* case, and leaves another word out.
C8_Witness ==
  /\ Done
  /\ req.completer = "WordCompleter"
  /\ req.cfg.ignore_case
  /\ Anchor # <<>>
  /\ Len(res.value) < Len(req.cfg.words.value)
  /\ \E i \in 1..Len(res.value) :
       /\ res.value[i].text # lower(res.value[i].text)
       /\ ~contains(res.value[i].text, Anchor)

(***************************************************************************)
(* text()                                                                  *)
(***************************************************************************)
\* PathCompleter.__init__(**kwargs): the assertions hold of what text()
\* passes, and the arguments replace the defaults.
PathCompleterInit(kwargs) ==
  Returned([f \in DOMAIN PathCompleterDefaults |->
              IF f \in DOMAIN kwargs THEN kwargs[f]
              ELSE PathCompleterDefaults[f]])

\* ExecutableCompleter.__init__(self) takes no argument: a keyword argument
\* is a TypeError.
ExecutableCompleterInit(kwargs) ==
  IF DOMAIN kwargs = {} THEN Returned(ExecutableCompleter)
  ELSE Raised("TypeError")

\* text.py 73-80: the completer of the prompt, when there is one.
ChooseCompleter(path_autocomplete, exec_autocomplete, custom_autocomplete) ==
  IF path_autocomplete
  THEN [made |-> PathCompleterInit([expanduser |-> TRUE,
                                    delimiters |-> Some(TextDelimiters)]),
        completer |-> "PathCompleter"]
  ELSE IF exec_autocomplete
  THEN [made |-> ExecutableCompleterInit(
                   [delimiters |-> Some(TextDelimiters)]),
        completer |-> "ExecutableCompleter"]
  ELSE IF custom_autocomplete # None /\ Len(custom_autocomplete[1]) # 0
  THEN [made |-> Returned([words |-> custom_autocomplete[1],
                           ignore_case |-> TRUE]),
        completer |-> "WordCompleter"]
  ELSE [made |-> Returned(<<>>), completer |-> "none"]

\* text(message, default, path_autocomplete=..., exec_autocomplete=...,
\* custom_autocomplete=...): the prompt session it builds, or the exception
\* that ends it.
text(default, path_autocomplete, exec_autocomplete, custom_autocomplete) ==
  LET c == ChooseCompleter(path_autocomplete, exec_autocomplete,
                           custom_autocomplete)
  IN IF c.made.raised # ""
     THEN [value |-> <<>>, raised |-> c.made.raised, text |-> <<>>,
           completer |-> "none"]
     ELSE [value |-> c.made.value, raised |-> "", text |-> default,
           completer |-> c.completer]

TextCalls ==
  {[completer |-> "text", default |-> d, path_autocomplete |-> pa,
    exec_autocomplete |-> ea, custom_autocomplete |-> ca] :
     d \in {<<>>, <<"a">>}, pa \in BOOLEAN, ea \in BOOLEAN,
     ca \in {None} \cup {Some(l) : l \in WordLists}}

\* A caller asks a text question.
TextCall ==
  /\ pc = "idle"
  /\ \E r \in TextCalls :
       /\ req' = r
       /\ res' = text(r.default, r.path_autocomplete, r.exec_autocomplete,
                      r.custom_autocomplete)
  /\ pc' = "done"
  /\ UNCHANGED fs

NextText == TextCall \/ Return

SpecText == Init /\ [][NextText]_vars

\* C10: text() takes path_autocomplete, then exec_autocomplete, then a
\* non-empty custom_autocomplete, and builds the chosen completer without
\* an error: with exec_autocomplete alone the session has an
\* ExecutableCompleter.
C10_ChosenCompleterInstalled ==
  (Done /\ req.completer = "text")
  => /\ res.raised = ""
     /\ res.completer =
          IF req.path_autocomplete THEN "PathCompleter"
          ELSE IF req.exec_autocomplete THEN "ExecutableCompleter"
          ELSE IF req.custom_autocomplete # None
                  /\ req.custom_autocomplete[1] # <<>>
          THEN "WordCompleter"
          ELSE "none"

====
